---- MODULE Spec2Model ----
(***************************************************************************)
(* ChangeSetPersister (packages/core/src/unit-of-work/ChangeSetPersister.ts)*)
(* as a state machine: one invocation of executeInserts, executeUpdates or  *)
(* executeDeletes on a batch of change sets of one entity type.  A step is  *)
(* the code that runs between two await points; the driver answers each    *)
(* call with a result or an error of its own choosing.                      *)
(***************************************************************************)
EXTENDS Integers, Sequences, FiniteSets, TLC

VARIABLES
  meta,          \* EntityMetadata of the batch's entity type
  type,          \* ChangeSetType of the batch
  changeSets,    \* the batch: sequence of [name, type, payload, entity, persisted]
  entities,      \* entity objects by identity token (0 is an entity of another type)
  identifierMap, \* identity token -> value of its EntityIdentifier placeholder
  pc,            \* position of the invocation
  idx,           \* index of the change set the for-of loop is at
  res,           \* per change set, the QueryResult its write was answered with
  found,         \* per change set, what its findOne was answered with
  error,         \* what the invocation threw
  calls,         \* driver calls issued, in order
  outstanding,   \* indices into calls of the driver calls not yet answered
  setValues,     \* EntityIdentifier.setValue calls made, in order
  pre,           \* entities, changeSets and identifierMap as passed to the call
  other          \* a second invocation running side by side, while it is not the
                 \* one taking steps: its batch, its objects and its position

vars == <<meta, type, changeSets, entities, identifierMap, pc, idx, res, found,
          error, calls, outstanding, setValues, pre, other>>

----------------------------------------------------------------------------
(* Bounds of the model *)

MaxBatch == 3

----------------------------------------------------------------------------
(* JavaScript values.  Numbers stand for themselves; the other values are   *)
(* given numbers outside the range the model's numbers use.                 *)

undefined == -1
null == -2
IdentifierBase == 100
EntityBase == 200

\* an EntityIdentifier object (the placeholder of the entity with token u)
EntityIdentifier(u) == IdentifierBase + u
\* a reference to the entity object with token u
EntityRef(u) == EntityBase + u

\* value instanceof EntityIdentifier
isEntityIdentifier(value) == value >= IdentifierBase /\ value < EntityBase
\* Utils.isEntity(value, true)
isEntity(value) == value >= EntityBase
tokenOf(value) == IF isEntity(value) THEN value - EntityBase ELSE value - IdentifierBase

\* Utils.isDefined(data, considerNullUndefined)
isDefined(data, considerNullUndefined) ==
  data # undefined /\ ~(considerNullUndefined /\ data = null)

\* JavaScript truthiness: undefined, null and 0 are falsy
truthy(value) == value > 0

----------------------------------------------------------------------------
(* Metadata *)

CREATE == "CREATE"
UPDATE == "UPDATE"
DELETE == "DELETE"
ChangeSetType == {CREATE, UPDATE, DELETE}

NoProperty == "none"
NoRule == "none"

\* Object.values(meta.properties), in declaration order
PropNames == <<"id", "id2", "version", "val", "ref">>
PropSet == {PropNames[q] : q \in 1..Len(PropNames)}
FieldNameOf(p) == IF p = "val" THEN "val_col" ELSE p
FieldSet == {FieldNameOf(p) : p \in PropSet}

EntityProperty(p, primary, onCreate, onUpdate, customType) ==
  [name |-> p, primary |-> primary, onCreate |-> onCreate, onUpdate |-> onUpdate,
   customType |-> customType, fieldNames |-> <<FieldNameOf(p)>>]

EntityMetadata(versioned, composite, idRule, idCustom, valRules) ==
  [name |-> "User",
   versionProperty |-> IF versioned THEN "version" ELSE NoProperty,
   primaryKeys |-> IF composite THEN <<"id", "id2">> ELSE <<"id">>,
   compositePK |-> composite,
   properties |->
     [p \in PropSet |->
        CASE p = "id"  -> EntityProperty(p, TRUE, idRule, NoRule, idCustom)
          [] p = "id2" -> EntityProperty(p, composite, NoRule, NoRule, FALSE)
          [] p = "val" -> EntityProperty(p, FALSE, IF valRules THEN "now" ELSE NoRule,
                                         IF valRules THEN "touch" ELSE NoRule, FALSE)
          [] OTHER     -> EntityProperty(p, FALSE, NoRule, NoRule, FALSE)]]

\* values the compute-on-create / compute-on-update rules return for entity k
UuidBase == 30
NowValue == 8
TouchValue == 6
onCreate(rule, k) == IF rule = "uuid" THEN UuidBase + k ELSE NowValue
onUpdate(rule, k) == TouchValue

\* prop.customType.convertToJSValue(value, platform)
ConvertOffset == 20
convertToJSValue(value) ==
  IF isDefined(value, TRUE) THEN value + ConvertOffset ELSE value

----------------------------------------------------------------------------
(* Entities, change sets, driver results *)

\* wrapped.__primaryKey of a simple-key entity: the first primary-key property
primaryKey(e) == e[meta.primaryKeys[1]]
\* wrapped.__primaryKeys: the key values in the order of meta.primaryKeys
primaryKeys(e) == [q \in 1..Len(meta.primaryKeys) |-> e[meta.primaryKeys[q]]]

EmptyRow == [f \in FieldSet |-> undefined]
\* Object.keys(res.row).length > 0
rowHasKeys(row) == \E f \in FieldSet : row[f] # undefined

\* a write not answered yet, and a lookup not answered yet
NoResult == [affectedRows |-> undefined, insertId |-> undefined, row |-> EmptyRow]
NotFound == [found |-> FALSE, row |-> EmptyRow]
NoLookup == [found |-> FALSE, row |-> [EmptyRow EXCEPT !["version"] = null]]
NoError == [kind |-> "none", entity |-> 0]
\* no second invocation runs side by side
NoInvocation == [pc |-> "none"]

----------------------------------------------------------------------------
(* The synchronous helpers.  They read and write the objects the persister  *)
(* shares with its caller, gathered in a record                             *)
(*   w = [changeSets, entities, identifierMap, setValues].                  *)

World == [changeSets |-> changeSets, entities |-> entities,
          identifierMap |-> identifierMap, setValues |-> setValues]

\* hydrator.hydrate(entity, meta, data, false, true): writes the values of data
hydrate(entity, data) ==
  [p \in DOMAIN entity |-> IF p \in DOMAIN data THEN data[p] ELSE entity[p]]

\* EntityIdentifier.getValue() of the placeholder object `value`
getValue(w, value) == w.identifierMap[tokenOf(value)]

\* mapPrimaryKey that assigns the value whether or not the entity has a key
mapPrimaryKeyOverwrite(w, value, k) ==
  LET prop == meta.properties[meta.primaryKeys[1]]
      insertId == IF prop.customType THEN convertToJSValue(value) ELSE value
      es == [w.entities EXCEPT ![k][meta.primaryKeys[1]] = insertId]
  IN [w EXCEPT !.entities = es,
               !.identifierMap[k] = es[k][prop.name],
               !.setValues = Append(@, [uuid |-> k, value |-> es[k][prop.name]])]

\* mapPrimaryKey: the entity keeps a key it has, else takes the converted value;
\* the placeholder is set to the entity's key
mapPrimaryKey(w, value, k) ==
  LET prop == meta.properties[meta.primaryKeys[1]]
      insertId == IF prop.customType THEN convertToJSValue(value) ELSE value
      wrapped == w.entities[k]
      pk == IF isDefined(primaryKey(wrapped), TRUE) THEN primaryKey(wrapped) ELSE insertId
      es == [w.entities EXCEPT ![k][meta.primaryKeys[1]] = pk]
  IN [w EXCEPT !.entities = es,
               !.identifierMap[k] = es[k][prop.name],
               !.setValues = Append(@, [uuid |-> k, value |-> es[k][prop.name]])]

\* markAsPopulated that forgets the entity itself and marks only what it holds
markAsPopulatedRelatedOnly(w, k) ==
  LET e == w.entities[k]
      related == {tokenOf(e[p]) : p \in {q \in PropSet : isEntity(e[q])}}
  IN [w EXCEPT !.entities =
        [u \in DOMAIN w.entities |->
           IF u \in related /\ u # k
           THEN [w.entities[u] EXCEPT !.populated = TRUE]
           ELSE w.entities[u]]]

markAsPopulated(w, k) ==
  LET e == w.entities[k]
      related == {tokenOf(e[p]) : p \in {q \in PropSet : isEntity(e[q])}}
  IN [w EXCEPT !.entities =
        [u \in DOMAIN w.entities |->
           IF u = k \/ u \in related
           THEN [w.entities[u] EXCEPT !.populated = TRUE]
           ELSE w.entities[u]]]

\* mapReturnedValues without the check that the entity holds no value
mapReturnedValuesOverwrite(w, k, r) ==
  IF rowHasKeys(r.row)
  THEN LET entity == w.entities[k]
           mapped == {p \in PropSet :
                        /\ Len(meta.properties[p].fieldNames) > 0
                        /\ truthy(r.row[meta.properties[p].fieldNames[1]])}
           data == [p \in mapped |-> r.row[meta.properties[p].fieldNames[1]]]
       IN [w EXCEPT !.entities[k] = hydrate(entity, data)]
  ELSE w

mapReturnedValues(w, k, r) ==
  IF rowHasKeys(r.row)
  THEN LET entity == w.entities[k]
           mapped == {p \in PropSet :
                        /\ Len(meta.properties[p].fieldNames) > 0
                        /\ truthy(r.row[meta.properties[p].fieldNames[1]])
                        /\ ~isDefined(entity[p], TRUE)}
           data == [p \in mapped |-> r.row[meta.properties[p].fieldNames[1]]]
       IN [w EXCEPT !.entities[k] = hydrate(entity, data)]
  ELSE w

\* processProperty that leaves a placeholder object in the payload
processPropertyUnresolved(w, k, prop) ==
  LET w2 == IF prop.onCreate # NoRule /\ w.changeSets[k].type = CREATE
            THEN LET v == onCreate(prop.onCreate, k)
                     wc == [w EXCEPT !.entities[k][prop.name] = v,
                                     !.changeSets[k].payload[prop.name] = v]
                 IN IF prop.primary
                    THEN mapPrimaryKey(wc, wc.entities[k][prop.name], k)
                    ELSE wc
            ELSE w
  IN IF prop.onUpdate # NoRule /\ w2.changeSets[k].type = UPDATE
     THEN LET v == onUpdate(prop.onUpdate, k)
          IN [w2 EXCEPT !.entities[k][prop.name] = v,
                        !.changeSets[k].payload[prop.name] = v]
     ELSE w2

processProperty(w, k, prop) ==
  LET value == w.changeSets[k].payload[prop.name]
      w1 == IF isEntityIdentifier(value)
            THEN [w EXCEPT !.changeSets[k].payload[prop.name] = getValue(w, value)]
            ELSE w
      w2 == IF prop.onCreate # NoRule /\ w1.changeSets[k].type = CREATE
            THEN LET v == onCreate(prop.onCreate, k)
                     wc == [w1 EXCEPT !.entities[k][prop.name] = v,
                                      !.changeSets[k].payload[prop.name] = v]
                 IN IF prop.primary
                    THEN mapPrimaryKey(wc, wc.entities[k][prop.name], k)
                    ELSE wc
            ELSE w1
  IN IF prop.onUpdate # NoRule /\ w2.changeSets[k].type = UPDATE
     THEN LET v == onUpdate(prop.onUpdate, k)
          IN [w2 EXCEPT !.entities[k][prop.name] = v,
                        !.changeSets[k].payload[prop.name] = v]
     ELSE w2

\* the loop of processProperties, from the q-th property on
RECURSIVE processPropertiesFrom(_, _, _)
processPropertiesFrom(w, k, q) ==
  IF q > Len(PropNames) THEN w
  ELSE processPropertiesFrom(processProperty(w, k, meta.properties[PropNames[q]]), k, q + 1)

processProperties(w, k) == processPropertiesFrom(w, k, 1)

\* changeSets.forEach(changeSet => this.processProperties(changeSet)), from the k-th on
RECURSIVE forEachProcessProperties(_, _)
forEachProcessProperties(w, k) ==
  IF k > Len(w.changeSets) THEN w
  ELSE forEachProcessProperties(processProperties(w, k), k + 1)

----------------------------------------------------------------------------
(* Driver calls *)

NoCond == [pk |-> undefined, versioned |-> FALSE, version |-> undefined, in |-> <<>>]
EmptyPayload == [p \in PropSet |-> undefined]

DriverCall(op, k, cond, payload) == [op |-> op, cs |-> k, cond |-> cond, payload |-> payload]

\* this.driver.nativeInsert(changeSet.name, changeSet.payload, ctx)
nativeInsertCall(w, k) == DriverCall("nativeInsert", k, NoCond, w.changeSets[k].payload)

\* updateEntity that qualifies the predicate by every version that is set, 0 too
updateEntityAnySetVersion(w, k) ==
  LET entity == w.entities[k] IN
  IF meta.versionProperty = NoProperty \/ ~isDefined(entity[meta.versionProperty], TRUE)
  THEN DriverCall("nativeUpdate", k, [NoCond EXCEPT !.pk = primaryKey(entity)],
                  w.changeSets[k].payload)
  ELSE DriverCall("nativeUpdate", k,
                  [NoCond EXCEPT !.pk = primaryKey(entity), !.versioned = TRUE,
                                 !.version = entity[meta.versionProperty]],
                  w.changeSets[k].payload)

\* updateEntity: the predicate is the primary key, and the held version when
\* the type has a version property and the entity's version is truthy
updateEntity(w, k) ==
  LET entity == w.entities[k] IN
  IF meta.versionProperty = NoProperty \/ ~truthy(entity[meta.versionProperty])
  THEN DriverCall("nativeUpdate", k, [NoCond EXCEPT !.pk = primaryKey(entity)],
                  w.changeSets[k].payload)
  ELSE DriverCall("nativeUpdate", k,
                  [NoCond EXCEPT !.pk = primaryKey(entity), !.versioned = TRUE,
                                 !.version = entity[meta.versionProperty]],
                  w.changeSets[k].payload)

\* this.driver.findOne(meta.name, wrapped.__primaryKey, {fields: [meta.versionProperty]}, ctx)
findOneCall(w, k) ==
  DriverCall("findOne", k, [NoCond EXCEPT !.pk = primaryKey(w.entities[k])], EmptyPayload)

\* nativeDelete over the first key of a composite key only
nativeDeleteCallFirstKey(w) ==
  LET pks == IF meta.compositePK
             THEN [k \in 1..Len(w.changeSets) |-> <<primaryKey(w.entities[k])>>]
             ELSE [k \in 1..Len(w.changeSets) |-> primaryKey(w.entities[k])]
  IN DriverCall("nativeDelete", 0, [NoCond EXCEPT !.in = pks], EmptyPayload)

\* this.driver.nativeDelete(changeSets[0].name, { [pk]: { $in: pks } }, ctx)
nativeDeleteCall(w) ==
  LET pks == IF meta.compositePK
             THEN [k \in 1..Len(w.changeSets) |-> primaryKeys(w.entities[k])]
             ELSE [k \in 1..Len(w.changeSets) |-> primaryKey(w.entities[k])]
  IN DriverCall("nativeDelete", 0, [NoCond EXCEPT !.in = pks], EmptyPayload)

\* processOptimisticLock without the check of the change set's type
processOptimisticLockAnyType(changeSet, r) ==
  IF meta.versionProperty = NoProperty THEN "return"
  ELSE IF ~truthy(r.affectedRows) THEN "throw"
  ELSE "findOne"

\* processOptimisticLock without the check of the affected rows
processOptimisticLockNoCheck(changeSet, r) ==
  IF meta.versionProperty = NoProperty THEN "return" ELSE "findOne"

\* processOptimisticLock that checks the affected rows before the version property
processOptimisticLockRowsFirst(changeSet, r) ==
  IF changeSet.type = UPDATE /\ ~truthy(r.affectedRows) THEN "throw"
  ELSE IF meta.versionProperty = NoProperty THEN "return"
  ELSE "findOne"

\* processOptimisticLock up to its await: what it does with the write's result
processOptimisticLock(changeSet, r) ==
  IF meta.versionProperty = NoProperty THEN "return"
  ELSE IF changeSet.type = UPDATE /\ ~truthy(r.affectedRows) THEN "throw"
  ELSE "findOne"

\* the flag is never set
markPersistedNever(css, k) == css

\* changeSet.persisted = true
markPersisted(css, k) == [css EXCEPT ![k].persisted = TRUE]

\* the looked-up version is dropped
refreshVersionKeep(entity, e) == entity

\* changeSet.entity[meta.versionProperty] = e![meta.versionProperty]
refreshVersion(entity, e) ==
  [entity EXCEPT ![meta.versionProperty] = e.row[meta.versionProperty]]

\* persistNewEntity that maps the primary key whether or not it was set
afterInsertAlwaysMaps(w, k, r) ==
  LET w1 == mapReturnedValues(w, k, r)
      w2 == mapPrimaryKey(w1, r.insertId, k)
      w3 == markAsPopulated(w2, k)
  IN [w3 EXCEPT !.entities[k].initialized = TRUE]

\* persistNewEntity between the insert's answer and processOptimisticLock
afterInsert(w, k, r) ==
  LET hasPrimaryKey == isDefined(primaryKey(w.entities[k]), TRUE)
      w1 == mapReturnedValues(w, k, r)
      w2 == IF ~hasPrimaryKey THEN mapPrimaryKey(w1, r.insertId, k) ELSE w1
      w3 == markAsPopulated(w2, k)
  IN [w3 EXCEPT !.entities[k].initialized = TRUE]

\* persistManagedEntity that counts the held version up on its own
afterUpdateBumpsVersion(w, k, r) ==
  LET w1 == mapReturnedValues(w, k, r) IN
  IF meta.versionProperty # NoProperty /\ truthy(w1.entities[k][meta.versionProperty])
  THEN [w1 EXCEPT !.entities[k][meta.versionProperty] = @ + 1]
  ELSE w1

\* persistManagedEntity between the update's answer and processOptimisticLock
afterUpdate(w, k, r) == mapReturnedValues(w, k, r)

----------------------------------------------------------------------------
(* The batches the model is run on, and what the driver may answer *)

ExternalKey == 50
GeneratedBase == 10
CompositeBase == 40
HeldValue == 5
RowId == 9
RowVal == 7
FoundVersion == 2
RowVersion == 3

IdRules == {NoRule, "uuid"}
ValInit == {undefined, null, HeldValue}
VersionInit == {undefined, 0, 1}
RefPatterns == {"none", "prev", "ext"}

\* which entities of a batch of n come with a caller-set key: all from the
\* (m+1)-th on, the first m getting their key from the store
PresetPatterns(n) == {[k \in 1..n |-> k > m] : m \in 0..n}

\* a row of returned columns: a key, a value, a truthy version, and 0 in the
\* column of id2
FullRow == [EmptyRow EXCEPT !["id"] = RowId, !["id2"] = 0, !["val_col"] = RowVal,
                            !["version"] = RowVersion]
Rows == {EmptyRow, FullRow}
AffectedRows == {0, 1}
\* nativeInsert's answers for the k-th change set: a generated id with one
\* affected row, or neither; with or without returned columns
InsertResults(k) ==
  {[affectedRows |-> a, insertId |-> IF a = 1 THEN GeneratedBase + k ELSE undefined,
    row |-> row] : a \in AffectedRows, row \in Rows}
\* nativeUpdate's answers
UpdateResults ==
  {[affectedRows |-> a, insertId |-> undefined, row |-> row] :
     a \in AffectedRows, row \in Rows}
\* findOne's answers: null, or a row holding the version column
FindOneResults == {NotFound,
                   [found |-> TRUE, row |-> [EmptyRow EXCEPT !["version"] = FoundVersion]]}

\* the entity of the k-th change set, as the unit of work hands it over
InitEntity(t, k, composite, preset, val0, ver0, refs) ==
  [id |-> IF t = CREATE /\ ~preset[k] THEN undefined ELSE k,
   id2 |-> IF composite THEN CompositeBase + k ELSE undefined,
   version |-> IF t = CREATE THEN undefined ELSE ver0[k],
   val |-> val0,
   ref |-> CASE refs = "prev" /\ k > 1 -> EntityRef(k - 1)
             [] refs = "ext" -> EntityRef(0)
             [] OTHER -> undefined,
   populated |-> t # CREATE,
   initialized |-> t # CREATE]

\* an entity of another type, inserted earlier in the same flush
ExternalEntity ==
  [id |-> ExternalKey, id2 |-> undefined, version |-> undefined, val |-> undefined,
   ref |-> undefined, populated |-> FALSE, initialized |-> TRUE]

\* the payload the change-set computer builds: the entity's data, with the
\* placeholder of a referenced entity that has no primary key yet
InitPayload(t, k, e, es) ==
  [p \in PropSet |->
     CASE p = "ref" ->
            IF ~isEntity(e.ref) THEN undefined
            ELSE IF tokenOf(e.ref) = 0 \/ ~isDefined(es[tokenOf(e.ref)].id, TRUE)
                 THEN EntityIdentifier(tokenOf(e.ref))
                 ELSE es[tokenOf(e.ref)].id
       [] p = "val" -> IF t = DELETE THEN undefined ELSE e.val
       [] p = "version" -> undefined
       [] OTHER -> IF t = CREATE THEN e[p] ELSE undefined]

Init ==
  \E t \in ChangeSetType, n \in 0..MaxBatch, versioned \in BOOLEAN, composite \in BOOLEAN,
     idRule \in IdRules, idCustom \in BOOLEAN, valRules \in BOOLEAN,
     val0 \in ValInit, refs \in RefPatterns :
   \E preset \in PresetPatterns(n), ver0 \in [1..n -> VersionInit] :
     /\ composite => t = DELETE
     /\ t # CREATE => idRule = NoRule /\ ~idCustom /\ refs # "prev"
                      /\ \A k \in 1..n : preset[k]
     /\ t = DELETE => ~valRules /\ val0 = HeldValue /\ refs = "none"
     /\ valRules => val0 = undefined
     /\ idRule # NoRule => ~idCustom /\ \A k \in 1..n : ~preset[k]
     /\ (t # UPDATE \/ ~versioned) => \A k \in 1..n : ver0[k] = undefined
     /\ LET es == [k \in 0..n |->
                     IF k = 0 THEN ExternalEntity
                     ELSE InitEntity(t, k, composite, preset, val0, ver0, refs)]
            css == [k \in 1..n |->
                      [name |-> "User", type |-> t,
                       payload |-> InitPayload(t, k, es[k], es),
                       entity |-> k, persisted |-> FALSE]]
            im == [u \in (IF t = CREATE THEN 0..n ELSE {0}) |->
                     IF u = 0 THEN ExternalKey ELSE undefined]
        IN /\ meta = EntityMetadata(versioned, composite, idRule, idCustom, valRules)
           /\ type = t
           /\ entities = es
           /\ changeSets = css
           /\ identifierMap = im
           /\ pre = [entities |-> es, changeSets |-> css, identifierMap |-> im]
     /\ pc = "start"
     /\ idx = 0
     /\ res = [k \in 1..n |-> NoResult]
     /\ found = [k \in 1..n |-> NoLookup]
     /\ error = NoError
     /\ calls = <<>>
     /\ outstanding = {}
     /\ setValues = <<>>
     /\ other = NoInvocation

----------------------------------------------------------------------------
(* Steps *)

\* the objects of w become the state
Store(w) ==
  /\ changeSets' = w.changeSets
  /\ entities' = w.entities
  /\ identifierMap' = w.identifierMap
  /\ setValues' = w.setValues

\* a driver call is issued and awaited
Issue(call, at) ==
  /\ calls' = Append(calls, call)
  /\ outstanding' = outstanding \cup {Len(calls) + 1}
  /\ pc' = at

\* the outstanding call the invocation awaits at pc
Awaited(op) == {c \in outstanding : calls[c].op = op /\ calls[c].cs = idx}

Throw(kind, k) ==
  /\ error' = [kind |-> kind, entity |-> k]
  /\ pc' = "failed"

\* the change set is marked persisted before the lock is verified
LockAndPersistEager(w, k, r, c) ==
  LET step == processOptimisticLock(w.changeSets[k], r)
      marked == [w EXCEPT !.changeSets = markPersisted(w.changeSets, k)]
  IN
  /\ res' = [res EXCEPT ![k] = r]
  /\ Store(marked)
  /\ CASE step = "return" ->
            /\ calls' = calls
            /\ outstanding' = outstanding \ {c}
            /\ pc' = "loop"
            /\ error' = error
       [] step = "throw" ->
            /\ calls' = calls
            /\ outstanding' = outstanding \ {c}
            /\ Throw("OptimisticLockError", k)
       [] OTHER ->
            /\ calls' = Append(calls, findOneCall(marked, k))
            /\ outstanding' = (outstanding \ {c}) \cup {Len(calls) + 1}
            /\ pc' = "findOne"
            /\ error' = error

\* processOptimisticLock and the end of persistNewEntity / persistManagedEntity,
\* once the write of change set k is answered by r and reconciled into w
LockAndPersist(w, k, r, c) ==
  LET step == processOptimisticLock(w.changeSets[k], r) IN
  /\ res' = [res EXCEPT ![k] = r]
  /\ CASE step = "return" ->
            /\ Store([w EXCEPT !.changeSets = markPersisted(w.changeSets, k)])
            /\ calls' = calls
            /\ outstanding' = outstanding \ {c}
            /\ pc' = "loop"
            /\ error' = error
       [] step = "throw" ->
            /\ Store(w)
            /\ calls' = calls
            /\ outstanding' = outstanding \ {c}
            /\ Throw("OptimisticLockError", k)
       [] OTHER ->
            /\ Store(w)
            /\ calls' = Append(calls, findOneCall(w, k))
            /\ outstanding' = (outstanding \ {c}) \cup {Len(calls) + 1}
            /\ pc' = "findOne"
            /\ error' = error

executeInserts ==
  /\ pc = "start"
  /\ type = CREATE
  /\ LET w == forEachProcessProperties(World, 1) IN
       /\ Store(w)
       /\ IF Len(w.changeSets) = 0
          THEN /\ pc' = "done"
               /\ UNCHANGED <<idx, calls, outstanding>>
          ELSE /\ idx' = 1
               /\ Issue(nativeInsertCall(w, 1), "nativeInsert")
  /\ UNCHANGED <<other, meta, type, res, found, error, pre>>

nativeInsertReturns ==
  /\ pc = "nativeInsert"
  /\ \E c \in Awaited("nativeInsert"), r \in InsertResults(idx) :
       LockAndPersist(afterInsert(World, idx, r), idx, r, c)
  /\ UNCHANGED <<other, meta, type, idx, found, pre>>

\* a rejected insert is issued once more before the error is passed on
nativeInsertThrowsRetries ==
  /\ pc = "nativeInsert"
  /\ \E c \in Awaited("nativeInsert") :
       IF Cardinality({d \in 1..Len(calls) : calls[d].cs = idx}) < 2
       THEN /\ calls' = Append(calls, calls[c])
            /\ outstanding' = (outstanding \ {c}) \cup {Len(calls) + 1}
            /\ UNCHANGED <<pc, error>>
       ELSE /\ outstanding' = outstanding \ {c}
            /\ Throw("DriverError", idx)
            /\ calls' = calls
  /\ UNCHANGED <<other, meta, type, changeSets, entities, identifierMap, idx, res, found,
                 setValues, pre>>

nativeInsertThrows ==
  /\ pc = "nativeInsert"
  /\ \E c \in Awaited("nativeInsert") : outstanding' = outstanding \ {c}
  /\ Throw("DriverError", idx)
  /\ UNCHANGED <<other, meta, type, changeSets, entities, identifierMap, idx, res, found, calls,
                 setValues, pre>>

\* the loop goes on without awaiting the change set it is at
persistNewEntityNoAwait ==
  /\ pc \in {"loop", "nativeInsert", "findOne"}
  /\ type = CREATE
  /\ IF idx = Len(changeSets)
     THEN /\ pc = "loop"
          /\ pc' = "done"
          /\ UNCHANGED <<idx, calls, outstanding>>
     ELSE /\ idx' = idx + 1
          /\ Issue(nativeInsertCall(World, idx + 1), "nativeInsert")
  /\ UNCHANGED <<other, meta, type, changeSets, entities, identifierMap, res, found, error,
                 setValues, pre>>

\* the for-of loop of executeInserts goes on to the next change set
persistNewEntity ==
  /\ pc = "loop"
  /\ type = CREATE
  /\ IF idx = Len(changeSets)
     THEN /\ pc' = "done"
          /\ UNCHANGED <<idx, calls, outstanding>>
     ELSE /\ idx' = idx + 1
          /\ Issue(nativeInsertCall(World, idx + 1), "nativeInsert")
  /\ UNCHANGED <<other, meta, type, changeSets, entities, identifierMap, res, found, error,
                 setValues, pre>>

executeUpdates ==
  /\ pc = "start"
  /\ type = UPDATE
  /\ LET w == forEachProcessProperties(World, 1) IN
       /\ Store(w)
       /\ IF Len(w.changeSets) = 0
          THEN /\ pc' = "done"
               /\ UNCHANGED <<idx, calls, outstanding>>
          ELSE /\ idx' = 1
               /\ Issue(updateEntity(w, 1), "nativeUpdate")
  /\ UNCHANGED <<other, meta, type, res, found, error, pre>>

nativeUpdateReturns ==
  /\ pc = "nativeUpdate"
  /\ \E c \in Awaited("nativeUpdate"), r \in UpdateResults :
       LockAndPersist(afterUpdate(World, idx, r), idx, r, c)
  /\ UNCHANGED <<other, meta, type, idx, found, pre>>

\* a rejected update is issued once more before the error is passed on
nativeUpdateThrowsRetries ==
  /\ pc = "nativeUpdate"
  /\ \E c \in Awaited("nativeUpdate") :
       IF Cardinality({d \in 1..Len(calls) : calls[d].cs = idx}) < 2
       THEN /\ calls' = Append(calls, calls[c])
            /\ outstanding' = (outstanding \ {c}) \cup {Len(calls) + 1}
            /\ UNCHANGED <<pc, error>>
       ELSE /\ outstanding' = outstanding \ {c}
            /\ Throw("DriverError", idx)
            /\ calls' = calls
  /\ UNCHANGED <<other, meta, type, changeSets, entities, identifierMap, idx, res, found,
                 setValues, pre>>

nativeUpdateThrows ==
  /\ pc = "nativeUpdate"
  /\ \E c \in Awaited("nativeUpdate") : outstanding' = outstanding \ {c}
  /\ Throw("DriverError", idx)
  /\ UNCHANGED <<other, meta, type, changeSets, entities, identifierMap, idx, res, found, calls,
                 setValues, pre>>

\* the for-of loop of executeUpdates goes on to the next change set
persistManagedEntity ==
  /\ pc = "loop"
  /\ type = UPDATE
  /\ IF idx = Len(changeSets)
     THEN /\ pc' = "done"
          /\ UNCHANGED <<idx, calls, outstanding>>
     ELSE /\ idx' = idx + 1
          /\ Issue(updateEntity(World, idx + 1), "nativeUpdate")
  /\ UNCHANGED <<other, meta, type, changeSets, entities, identifierMap, res, found, error,
                 setValues, pre>>

\* findOne answers: e![meta.versionProperty] is copied, and null has no property
findOneReturns ==
  /\ pc = "findOne"
  /\ \E c \in Awaited("findOne"), e \in FindOneResults :
       /\ outstanding' = outstanding \ {c}
       /\ found' = [found EXCEPT ![idx] = e]
       /\ IF e.found
          THEN /\ entities' = [entities EXCEPT ![idx] = refreshVersion(@, e)]
               /\ changeSets' = markPersisted(changeSets, idx)
               /\ pc' = "loop"
               /\ error' = error
          ELSE /\ Throw("TypeError", idx)
               /\ UNCHANGED <<entities, changeSets>>
  /\ UNCHANGED <<other, meta, type, identifierMap, idx, res, calls, setValues, pre>>

findOneThrows ==
  /\ pc = "findOne"
  /\ \E c \in Awaited("findOne") : outstanding' = outstanding \ {c}
  /\ Throw("DriverError", idx)
  /\ UNCHANGED <<other, meta, type, changeSets, entities, identifierMap, idx, res, found, calls,
                 setValues, pre>>

\* changeSets[0] of an empty batch is undefined, and reading .entity of it throws
executeDeletes ==
  /\ pc = "start"
  /\ type = DELETE
  /\ IF Len(changeSets) = 0
     THEN /\ Throw("TypeError", 0)
          /\ UNCHANGED <<calls, outstanding>>
     ELSE /\ Issue(nativeDeleteCall(World), "nativeDelete")
          /\ error' = error
  /\ UNCHANGED <<other, meta, type, changeSets, entities, identifierMap, idx, res, found,
                 setValues, pre>>

nativeDeleteReturns ==
  /\ pc = "nativeDelete"
  /\ \E c \in {d \in outstanding : calls[d].op = "nativeDelete"} :
       outstanding' = outstanding \ {c}
  /\ pc' = "done"
  /\ UNCHANGED <<other, meta, type, changeSets, entities, identifierMap, idx, res, found, error,
                 calls, setValues, pre>>

nativeDeleteThrows ==
  /\ pc = "nativeDelete"
  /\ \E c \in {d \in outstanding : calls[d].op = "nativeDelete"} :
       outstanding' = outstanding \ {c}
  /\ Throw("DriverError", 0)
  /\ UNCHANGED <<other, meta, type, changeSets, entities, identifierMap, idx, res, found, calls,
                 setValues, pre>>

Next ==
  \/ executeInserts
  \/ nativeInsertReturns
  \/ nativeInsertThrows
  \/ persistNewEntity
  \/ executeUpdates
  \/ nativeUpdateReturns
  \/ nativeUpdateThrows
  \/ persistManagedEntity
  \/ findOneReturns
  \/ findOneThrows
  \/ executeDeletes
  \/ nativeDeleteReturns
  \/ nativeDeleteThrows

Spec == Init /\ [][Next]_vars

\* the steps of the driver: an awaited call returns or is rejected
DriverAnswers ==
  \/ nativeInsertReturns
  \/ nativeInsertThrows
  \/ nativeUpdateReturns
  \/ nativeUpdateThrows
  \/ findOneReturns
  \/ findOneThrows
  \/ nativeDeleteReturns
  \/ nativeDeleteThrows
\* the continuations of the core that run once an awaited step has settled
Continuations ==
  \/ persistNewEntity
  \/ persistManagedEntity

\* the batches termination is checked on: every type, size, version property
\* and compute rule of Init, with entities that refer to no other entity and
\* hold a version of 1 or none
InitFair ==
  /\ Init
  /\ \A k \in 1..Len(changeSets) :
       entities[k]["ref"] = undefined /\ entities[k]["version"] \in {undefined, 1}

\* every driver call is answered in the end, and a continuation that can run
\* is run by the event loop; whether the caller invokes at all is left open
SpecFair == InitFair /\ [][Next]_vars /\ WF_vars(DriverAnswers) /\ WF_vars(Continuations)

----------------------------------------------------------------------------
(* Two invocations side by side.  The persister keeps nothing of an          *)
(* invocation in its fields: the batch, the loop position and the awaited    *)
(* results are parameters and locals of the async methods, and each batch    *)
(* holds its own entity objects and placeholders.  What the two share is the *)
(* identifier map and the objects neither batch owns: here entity 0 and its  *)
(* placeholder, which both batches refer to.  The variables hold the         *)
(* invocation that takes steps, `other` the one that waits; at an await the  *)
(* event loop may go over to the other one.                                  *)

\* change sets of the two batches together
MaxPairChangeSets == 3

\* the objects of a batch: all but the shared one
Own(f) == [k \in DOMAIN f \ {0} |-> f[k]]
\* the objects an invocation sees: the shared one and its own
WithShared(f, own) == [k \in {0} \cup DOMAIN own |-> IF k = 0 THEN f[0] ELSE own[k]]

\* the invocation that takes steps, as it is kept while the other one runs
Suspended ==
  [meta |-> meta, type |-> type, changeSets |-> changeSets, entities |-> Own(entities),
   identifierMap |-> Own(identifierMap), pc |-> pc, idx |-> idx, res |-> res,
   found |-> found, error |-> error, calls |-> calls, outstanding |-> outstanding,
   setValues |-> setValues, pre |-> pre]

\* an invocation as it is when its batch of n change sets is passed in; the
\* entities refer to entity 0
NewInvocation(name, t, n, versioned) ==
  LET preset == [k \in 1..n |-> t # CREATE]
      ver0 == [k \in 1..n |-> IF t = UPDATE /\ versioned THEN 1 ELSE undefined]
      es == [k \in 0..n |->
               IF k = 0 THEN ExternalEntity
               ELSE InitEntity(t, k, FALSE, preset, undefined, ver0, "ext")]
      css == [k \in 1..n |->
                [name |-> name, type |-> t, payload |-> InitPayload(t, k, es[k], es),
                 entity |-> k, persisted |-> FALSE]]
      im == [u \in (IF t = CREATE THEN 0..n ELSE {0}) |->
               IF u = 0 THEN ExternalKey ELSE undefined]
  IN [meta |-> [EntityMetadata(versioned, FALSE, NoRule, FALSE, FALSE) EXCEPT !.name = name],
      type |-> t, changeSets |-> css, entities |-> es, identifierMap |-> im,
      pc |-> "start", idx |-> 0, res |-> [k \in 1..n |-> NoResult],
      found |-> [k \in 1..n |-> NoLookup], error |-> NoError, calls |-> <<>>,
      outstanding |-> {}, setValues |-> <<>>,
      pre |-> [entities |-> es, changeSets |-> css, identifierMap |-> im]]

\* an insert batch of one type and an insert or update batch of another
InitPair ==
  \E n1 \in 1..MaxPairChangeSets, n2 \in 1..MaxPairChangeSets, v1 \in BOOLEAN,
     v2 \in BOOLEAN, t2 \in {CREATE, UPDATE} :
    LET a == NewInvocation("User", CREATE, n1, v1)
        b == NewInvocation("Book", t2, n2, v2)
    IN /\ n1 + n2 <= MaxPairChangeSets
       /\ meta = a.meta
       /\ type = a.type
       /\ changeSets = a.changeSets
       /\ entities = a.entities
       /\ identifierMap = a.identifierMap
       /\ pc = a.pc
       /\ idx = a.idx
       /\ res = a.res
       /\ found = a.found
       /\ error = a.error
       /\ calls = a.calls
       /\ outstanding = a.outstanding
       /\ setValues = a.setValues
       /\ pre = a.pre
       /\ other = [b EXCEPT !.entities = Own(b.entities),
                            !.identifierMap = Own(b.identifierMap)]

\* the loop position is a field of the persister: it stays when the event loop
\* goes over to the other invocation
SwitchSharedIdx ==
  /\ other # NoInvocation
  /\ meta' = other.meta
  /\ type' = other.type
  /\ changeSets' = other.changeSets
  /\ entities' = WithShared(entities, other.entities)
  /\ identifierMap' = WithShared(identifierMap, other.identifierMap)
  /\ pc' = other.pc
  /\ idx' = IF other.pc = "start" THEN other.idx ELSE idx
  /\ res' = other.res
  /\ found' = other.found
  /\ error' = other.error
  /\ calls' = other.calls
  /\ outstanding' = other.outstanding
  /\ setValues' = other.setValues
  /\ pre' = other.pre
  /\ other' = Suspended

\* between two steps, which each end at an await or at the end of the
\* invocation, the event loop goes over to the other invocation
Switch ==
  /\ other # NoInvocation
  /\ meta' = other.meta
  /\ type' = other.type
  /\ changeSets' = other.changeSets
  /\ entities' = WithShared(entities, other.entities)
  /\ identifierMap' = WithShared(identifierMap, other.identifierMap)
  /\ pc' = other.pc
  /\ idx' = other.idx
  /\ res' = other.res
  /\ found' = other.found
  /\ error' = other.error
  /\ calls' = other.calls
  /\ outstanding' = other.outstanding
  /\ setValues' = other.setValues
  /\ pre' = other.pre
  /\ other' = Suspended

NextPair ==
  \/ executeInserts
  \/ nativeInsertReturns
  \/ nativeInsertThrows
  \/ persistNewEntity
  \/ executeUpdates
  \/ nativeUpdateReturns
  \/ nativeUpdateThrows
  \/ persistManagedEntity
  \/ findOneReturns
  \/ findOneThrows
  \/ Switch

SpecPair == InitPair /\ [][NextPair]_vars

----------------------------------------------------------------------------
(* Properties *)

Batch == 1..Len(changeSets)
versioned == meta.versionProperty # NoProperty
answered(k) == res[k] # NoResult
pkName == meta.primaryKeys[1]
\* the driver calls issued for change set k
CallsOf(k) == {c \in 1..Len(calls) : calls[c].cs = k}
WriteCallsOf(k) == {c \in CallsOf(k) : calls[c].op \in {"nativeInsert", "nativeUpdate"}}

\* C1, as stated: after a successful executeInserts every change set is
\* persisted and every entity has its primary key set, is populated and is
\* initialized, whatever the driver answered.
C1_AsStated ==
  (pc = "done" /\ type = CREATE) =>
    \A k \in Batch :
      /\ changeSets[k].persisted
      /\ isDefined(entities[k][pkName], TRUE)
      /\ entities[k].populated
      /\ entities[k].initialized

\* the primary key of entity k has a source: the caller or a compute-on-create
\* rule set it, or the driver reported a generated id or a key column
KeyHasSource(k) ==
  \/ isDefined(pre.entities[k][pkName], TRUE)
  \/ meta.properties[pkName].onCreate # NoRule
  \/ isDefined(res[k].insertId, TRUE)
  \/ truthy(res[k].row[meta.properties[pkName].fieldNames[1]])

\* C1, amended: after a successful executeInserts every change set is
\* persisted and every entity is populated and initialized; an entity's
\* primary key is set exactly when the caller or a compute-on-create rule set
\* it or the driver reported a generated id or a key column for it.
C1_InsertsPostcondition ==
  (pc = "done" /\ type = CREATE) =>
    \A k \in Batch :
      /\ changeSets[k].persisted
      /\ entities[k].populated
      /\ entities[k].initialized
      /\ isDefined(entities[k][pkName], TRUE) <=> KeyHasSource(k)

C1_Witness ==
  /\ pc = "done"
  /\ type = CREATE
  /\ Len(changeSets) >= 2
  /\ \E k \in Batch : /\ ~isDefined(pre.entities[k][pkName], TRUE)
                      /\ isDefined(entities[k][pkName], TRUE)
  /\ \E k \in Batch : ~isDefined(entities[k][pkName], TRUE)

\* C2: in executeUpdates on a versioned type, once nativeUpdate of change set k
\* has reported zero affected rows the call has failed with OptimisticLockError
\* for entity k, change set k is not persisted, and no later change set has
\* had a driver call or been marked persisted.
C2_ZeroRowsFailsLock ==
  \A k \in Batch :
    (type = UPDATE /\ versioned /\ answered(k) /\ res[k].affectedRows = 0) =>
      /\ pc = "failed"
      /\ error = [kind |-> "OptimisticLockError", entity |-> k]
      /\ ~changeSets[k].persisted
      /\ \A c \in CallsOf(k) : calls[c].op = "nativeUpdate"
      /\ \A j \in Batch : j > k => ~changeSets[j].persisted /\ CallsOf(j) = {}

C2_Witness ==
  /\ type = UPDATE
  /\ versioned
  /\ \E k \in Batch : /\ k < Len(changeSets)
                      /\ answered(k)
                      /\ res[k].affectedRows = 0
                      /\ error.kind = "OptimisticLockError"

\* the placeholders a payload held when the batch was passed in
PlaceholdersOf(k) == {p \in PropSet : isEntityIdentifier(pre.changeSets[k].payload[p])}
\* entity u of the batch gets its key from the store
StoreGenerated(u) ==
  /\ u \in Batch
  /\ ~isDefined(pre.entities[u][pkName], TRUE)
  /\ meta.properties[pkName].onCreate = NoRule

ResolvedBeforeInserts(u, j) ==
  IF u \in Batch /\ u < j /\ meta.properties[pkName].onCreate # NoRule
  THEN onCreate(meta.properties[pkName].onCreate, u)
  ELSE pre.identifierMap[u]

RuleOf(p) ==
  IF type = CREATE THEN meta.properties[p].onCreate
  ELSE IF type = UPDATE THEN meta.properties[p].onUpdate
  ELSE NoRule
RuleValue(p, k) ==
  IF type = CREATE THEN onCreate(meta.properties[p].onCreate, k)
  ELSE onUpdate(meta.properties[p].onUpdate, k)
ResolvedPayload(k, p) ==
  IF RuleOf(p) # NoRule THEN RuleValue(p, k)
  ELSE IF isEntityIdentifier(pre.changeSets[k].payload[p])
       THEN ResolvedBeforeInserts(tokenOf(pre.changeSets[k].payload[p]), k)
       ELSE pre.changeSets[k].payload[p]
ResolvedEntity(k, p) ==
  IF RuleOf(p) # NoRule THEN RuleValue(p, k) ELSE pre.entities[k][p]
ResolvedPlaceholder(k) ==
  IF type = CREATE /\ meta.properties[pkName].onCreate # NoRule
  THEN onCreate(meta.properties[pkName].onCreate, k)
  ELSE pre.identifierMap[k]

C5_VersionFromLookup ==
  \A k \in Batch :
    /\ (versioned /\ type \in {CREATE, UPDATE} /\ changeSets[k].persisted) =>
         found[k].found
    /\ found[k].found =>
         entities[k][meta.versionProperty] = found[k].row[meta.versionProperty]
    /\ found[k] # NoLookup =>
         answered(k) /\ (type = UPDATE => res[k].affectedRows # 0)

C5_Witness ==
  /\ type = UPDATE
  /\ pc = "done"
  /\ \E k \in Batch : /\ found[k].found
                      /\ pre.entities[k]["version"] = 1
                      /\ entities[k]["version"] = FoundVersion
                      /\ res[k].affectedRows = 1
  /\ \E k \in Batch : /\ found[k].found
                      /\ pre.entities[k]["version"] = 0

\* the in-set executeDeletes is to pass: per change set, in batch order, the
\* key values in the order of meta.primaryKeys, or the scalar key
ExpectedInSet ==
  [k \in Batch |->
     IF meta.compositePK
     THEN <<pre.entities[k]["id"], pre.entities[k]["id2"]>>
     ELSE pre.entities[k]["id"]]

\* C6: executeDeletes on a non-empty batch issues exactly one driver call, a
\* nativeDelete whose in-set holds the keys of all change sets in batch order
\* (tuples in the order of meta.primaryKeys for a composite key, scalars
\* otherwise), and changes no entity, payload, flag or placeholder.
C6_SingleDeleteCall ==
  (type = DELETE /\ Len(changeSets) > 0) =>
    /\ pc = "start" => calls = <<>>
    /\ pc # "start" =>
         /\ Len(calls) = 1
         /\ calls[1].op = "nativeDelete"
         /\ Len(calls[1].cond.in) = Len(changeSets)
         /\ \A k \in Batch :
              /\ meta.compositePK => Len(calls[1].cond.in[k]) = Len(meta.primaryKeys)
              /\ calls[1].cond.in[k] = ExpectedInSet[k]
    /\ changeSets = pre.changeSets
    /\ entities = pre.entities
    /\ identifierMap = pre.identifierMap
    /\ setValues = <<>>

C6_Witness ==
  /\ type = DELETE
  /\ pc = "done"
  /\ meta.compositePK
  /\ versioned
  /\ Len(changeSets) >= 2
  /\ Len(calls) = 1

\* C7: the step that reconciles the answer of a write leaves every property
\* the entity held a value for (neither undefined nor null) as it was.
C7_ReconciliationKeepsHeldValues ==
  [][\A k \in Batch, p \in PropSet :
       (pc \in {"nativeInsert", "nativeUpdate"} /\ isDefined(entities[k][p], TRUE)) =>
         entities'[k][p] = entities[k][p]]_vars

C7_Witness ==
  \E k \in Batch :
    /\ answered(k)
    /\ res[k].row["val_col"] = RowVal
    /\ res[k].row["id"] = RowId
    /\ entities[k]["val"] = HeldValue
    /\ entities[k]["id"] = k

\* C8: in executeInserts and executeUpdates at most one driver call is
\* outstanding, calls are issued in batch order, and the write of a change set
\* is issued only when every earlier change set is persisted and none of its
\* calls is outstanding.
C8_OneCallAtATime ==
  type \in {CREATE, UPDATE} =>
    /\ Cardinality(outstanding) <= 1
    /\ \A c, d \in 1..Len(calls) : c < d => calls[c].cs <= calls[d].cs
    /\ \A k \in Batch : Cardinality(WriteCallsOf(k)) <= 1
    /\ \A k \in Batch :
         WriteCallsOf(k) # {} =>
           \A j \in Batch : j < k =>
             /\ changeSets[j].persisted
             /\ CallsOf(j) \cap outstanding = {}

C8_Witness ==
  /\ versioned
  /\ Len(calls) >= 3
  /\ outstanding = {Len(calls)}
  /\ calls[Len(calls)].op \in {"nativeInsert", "nativeUpdate"}
  /\ calls[Len(calls)].cs = 2
  /\ calls[Len(calls) - 1].op = "findOne"

\* the setValue calls made on the placeholder of entity u
SetValuesOf(u) == {x \in 1..Len(setValues) : setValues[x].uuid = u}
LastSetValue(u) ==
  setValues[CHOOSE x \in SetValuesOf(u) : \A y \in SetValuesOf(u) : y <= x].value
KeyUnsetBeforeInsert(k) ==
  ~isDefined(pre.entities[k][pkName], TRUE) /\ meta.properties[pkName].onCreate = NoRule

\* C9, as stated: after executeInserts the placeholder of every entity of the
\* batch has been written exactly once, with the entity's final primary key;
\* no other placeholder is written and no entry is added or removed.
C9_AsStated ==
  (pc = "done" /\ type = CREATE) =>
    /\ DOMAIN identifierMap = DOMAIN pre.identifierMap
    /\ \A x \in 1..Len(setValues) : setValues[x].uuid \in Batch
    /\ \A k \in Batch :
         /\ Cardinality(SetValuesOf(k)) = 1
         /\ LastSetValue(k) = entities[k][pkName]

\* C9, amended: the core adds and removes no identifier-map entry and writes
\* only placeholders of entities of an insert batch.  A compute-on-create rule
\* of the primary key writes the placeholder once during property resolution,
\* before any insert.  After its insert was answered, an entity whose key was
\* unset until then gets exactly one write, with its final primary key; an
\* entity whose key was already set gets none, so the placeholder of an entity
\* with a caller-set key is never written.
C9_PlaceholderWrites ==
  /\ DOMAIN identifierMap = DOMAIN pre.identifierMap
  /\ \A x \in 1..Len(setValues) : type = CREATE /\ setValues[x].uuid \in Batch
  /\ \A u \in DOMAIN identifierMap :
       identifierMap[u] = IF SetValuesOf(u) = {} THEN pre.identifierMap[u]
                          ELSE LastSetValue(u)
  /\ \A k \in Batch :
       /\ Cardinality(SetValuesOf(k)) =
            (IF type = CREATE /\ pc # "start" /\ meta.properties[pkName].onCreate # NoRule
             THEN 1 ELSE 0)
            + (IF type = CREATE /\ answered(k) /\ KeyUnsetBeforeInsert(k) THEN 1 ELSE 0)
       /\ SetValuesOf(k) # {} /\ answered(k) => LastSetValue(k) = entities[k][pkName]

C9_Witness ==
  /\ pc = "done"
  /\ type = CREATE
  /\ \E k \in Batch : /\ isDefined(pre.entities[k][pkName], TRUE)
                      /\ SetValuesOf(k) = {}
  /\ \E k \in Batch : /\ KeyUnsetBeforeInsert(k)
                      /\ Cardinality(SetValuesOf(k)) = 1
                      /\ isDefined(identifierMap[k], TRUE)

\* the version entity k held when its update was issued
HeldVersion(k) == ResolvedEntity(k, "version")

\* C10, as stated: OptimisticLockError is raised only for an UPDATE that
\* reported zero affected rows and whose predicate held the version condition.
C10_AsStated ==
  error.kind = "OptimisticLockError" =>
    /\ type = UPDATE
    /\ res[error.entity].affectedRows = 0
    /\ \A c \in WriteCallsOf(error.entity) :
         /\ calls[c].cond.versioned
         /\ calls[c].cond.version = HeldVersion(error.entity)

\* C10, amended: OptimisticLockError is raised only for an UPDATE of a type
\* with a version property whose driver call reported zero affected rows; the
\* predicate of that update held the version condition exactly when the
\* entity's held version was truthy, so an update with a primary-key-only
\* predicate (held version unset or 0) fails with it too.
C10_LockErrorOnlyForVersionedUpdate ==
  error.kind = "OptimisticLockError" =>
    /\ type = UPDATE
    /\ versioned
    /\ answered(error.entity)
    /\ res[error.entity].affectedRows = 0
    /\ \A c \in WriteCallsOf(error.entity) :
         /\ calls[c].op = "nativeUpdate"
         /\ calls[c].cond.pk = entities[error.entity][pkName]
         /\ calls[c].cond.versioned <=> truthy(HeldVersion(error.entity))
         /\ calls[c].cond.versioned => calls[c].cond.version = HeldVersion(error.entity)

C10_Witness ==
  /\ error.kind = "OptimisticLockError"
  /\ \E c \in WriteCallsOf(error.entity) : ~calls[c].cond.versioned
  /\ pre.entities[error.entity]["version"] = 0

\* C11, as stated: when an update has failed with an OptimisticLockError, the
\* version property of the entity still holds the value it had when the batch
\* was passed in, no version lookup was issued for it and nothing was copied
\* into it, and its change set is not marked persisted.
C11_AsStated ==
  error.kind = "OptimisticLockError" =>
    LET k == error.entity IN
    /\ versioned
    /\ entities[k][meta.versionProperty] = pre.entities[k][meta.versionProperty]
    /\ found[k] = NoLookup
    /\ \A c \in CallsOf(k) : calls[c].op # "findOne"
    /\ ~changeSets[k].persisted

\* C11, amended: when an update has failed with an OptimisticLockError, no
\* version lookup was issued for the entity and its change set is not marked
\* persisted; its version property holds the value it had when the batch was
\* passed in, except that an entity that held no version (undefined or null)
\* holds the truthy version column of the row the update returned, copied by
\* the reconciliation that runs before the lock check.
C11_LockFailureLeavesVersion ==
  error.kind = "OptimisticLockError" =>
    LET k == error.entity
        held == pre.entities[k][meta.versionProperty]
        returned == res[k].row[FieldNameOf(meta.versionProperty)]
    IN
    /\ versioned
    /\ entities[k][meta.versionProperty] =
         IF ~isDefined(held, TRUE) /\ truthy(returned) THEN returned ELSE held
    /\ found[k] = NoLookup
    /\ \A c \in CallsOf(k) : calls[c].op # "findOne"
    /\ ~changeSets[k].persisted

C11_Witness ==
  /\ error.kind = "OptimisticLockError"
  /\ pc = "failed"
  /\ res[error.entity].row = FullRow
  /\ truthy(pre.entities[error.entity]["version"])
  /\ entities[error.entity]["version"] = pre.entities[error.entity]["version"]
  /\ ~changeSets[error.entity].persisted

\* the driver has rejected a write call of change set i: the call is no longer
\* awaited and has left no result
WriteRejected(i) ==
  /\ type \in {CREATE, UPDATE}
  /\ ~answered(i)
  /\ \E c \in WriteCallsOf(i) : c \notin outstanding

\* C12: once a write call for change set i was rejected by the driver, the
\* invocation has failed with the driver's error, change set i has received
\* exactly that one write call, which is the last driver call of the
\* invocation, and change set i is not marked persisted.
C12_WriteErrorPropagates ==
  \A i \in Batch :
    WriteRejected(i) =>
    /\ pc = "failed"
    /\ error = [kind |-> "DriverError", entity |-> i]
    /\ Cardinality(WriteCallsOf(i)) = 1
    /\ CallsOf(i) = WriteCallsOf(i)
    /\ WriteCallsOf(i) = {Len(calls)}
    /\ outstanding = {}
    /\ ~changeSets[i].persisted
    /\ \A j \in Batch : j > i => CallsOf(j) = {} /\ ~changeSets[j].persisted

C12_Witness ==
  /\ error.kind = "DriverError"
  /\ WriteRejected(error.entity)
  /\ error.entity > 1
  /\ error.entity < Len(changeSets)
  /\ changeSets[error.entity - 1].persisted
  /\ calls[Len(calls)].cs = error.entity

\* C13: every failure of executeInserts, executeUpdates or executeDeletes is an
\* OptimisticLockError or an error raised by a driver call, also when the
\* version lookup finds no row and when the batch passed in is empty.
C13_AsStated ==
  pc = "failed" => error.kind \in {"OptimisticLockError", "DriverError"}

\* C14: the predicate of every nativeUpdate call is the primary key of the
\* entity alone when the type has no version property or the entity's version
\* is falsy or unset (0 included), and otherwise the primary key together with
\* the version the entity holds.
C14_UpdatePredicate ==
  \A c \in 1..Len(calls) :
    calls[c].op = "nativeUpdate" =>
      LET k == calls[c].cs
          cond == calls[c].cond
      IN
      /\ cond.pk = pre.entities[k][pkName]
      /\ cond.in = NoCond.in
      /\ IF ~versioned \/ ~truthy(HeldVersion(k))
         THEN cond = [NoCond EXCEPT !.pk = pre.entities[k][pkName]]
         ELSE /\ cond.versioned
              /\ cond.version = HeldVersion(k)

C14_Witness ==
  /\ versioned
  /\ \E c, d \in 1..Len(calls) :
       /\ calls[c].op = "nativeUpdate"
       /\ calls[d].op = "nativeUpdate"
       /\ HeldVersion(calls[c].cs) = 0
       /\ ~calls[c].cond.versioned
       /\ truthy(HeldVersion(calls[d].cs))
       /\ calls[d].cond.versioned
       /\ calls[d].cond.version = HeldVersion(calls[d].cs)

\* C15: for a type without a version property, an update answered with zero
\* affected rows does not fail with a lock error, no findOne is issued for it,
\* and once the answer is in its change set is marked persisted.
C15_UnversionedZeroRowsPersists ==
  (type = UPDATE /\ ~versioned) =>
    /\ error.kind # "OptimisticLockError"
    /\ \A c \in 1..Len(calls) : calls[c].op # "findOne"
    /\ \A k \in Batch :
         (answered(k) /\ res[k].affectedRows = 0) =>
           /\ changeSets[k].persisted
           /\ error.entity # k
           /\ CallsOf(k) = WriteCallsOf(k)
           /\ found[k] = NoLookup

C15_Witness ==
  /\ type = UPDATE
  /\ ~versioned
  /\ pc = "done"
  /\ \E k \in Batch : answered(k) /\ res[k].affectedRows = 0 /\ changeSets[k].persisted

\* the primary key an entity holds when its insert is issued
KeyAtInsert(k) == ResolvedEntity(k, pkName)
\* the key the driver's answer gives an entity that had none
KeyFromResult(r) ==
  IF truthy(r.row[FieldNameOf(pkName)]) THEN r.row[FieldNameOf(pkName)]
  ELSE IF meta.properties[pkName].customType THEN convertToJSValue(r.insertId)
  ELSE r.insertId

\* C16: in executeInserts, an entity whose primary key was set when its insert
\* was issued keeps that key whatever insertId and returned row the driver
\* answers with; the key comes from the driver's answer only for an entity
\* whose key was unset.
C16_PresetKeyKept ==
  (type = CREATE /\ pc # "start") =>
    \A k \in Batch :
      /\ isDefined(KeyAtInsert(k), TRUE) => entities[k][pkName] = KeyAtInsert(k)
      /\ (answered(k) /\ ~isDefined(KeyAtInsert(k), TRUE)) =>
           entities[k][pkName] = KeyFromResult(res[k])
      /\ entities[k][pkName] # KeyAtInsert(k) =>
           answered(k) /\ ~isDefined(KeyAtInsert(k), TRUE)

C16_Witness ==
  /\ type = CREATE
  /\ pc = "done"
  /\ \E k \in Batch :
       /\ isDefined(pre.entities[k][pkName], TRUE)
       /\ res[k].insertId = GeneratedBase + k
       /\ res[k].row = FullRow
       /\ entities[k][pkName] = pre.entities[k][pkName]
       /\ entities[k][pkName] \notin {RowId, GeneratedBase + k}
  /\ \E k \in Batch :
       /\ ~isDefined(pre.entities[k][pkName], TRUE)
       /\ entities[k][pkName] = GeneratedBase + k

\* a change set is marked persisted only once its write is answered and, for a
\* versioned type, only once an update reported affected rows and the version
\* lookup returned a row whose version the entity now holds; the persisted
\* change sets are the first ones of the batch
PersistedOnlyWhenComplete ==
  type \in {CREATE, UPDATE} =>
    \A k \in Batch :
      changeSets[k].persisted =>
        /\ answered(k)
        /\ \A c \in CallsOf(k) : c \notin outstanding
        /\ versioned =>
             /\ type = UPDATE => truthy(res[k].affectedRows)
             /\ found[k].found
             /\ entities[k][meta.versionProperty] = found[k].row[meta.versionProperty]
        /\ \A j \in Batch : j < k => changeSets[j].persisted
\* a step never takes the flag back
PersistedStays ==
  \A k \in Batch : changeSets[k].persisted => changeSets'[k].persisted

\* C17: in every reachable state of executeInserts and executeUpdates a change
\* set is persisted only if its write and, for a versioned type, its lock
\* verification and version refresh have completed; the flag never goes back
\* to false; and the persisted change sets form a prefix of the batch.
C17_PersistedFlag == []PersistedOnlyWhenComplete /\ [][PersistedStays]_vars

C17_Witness ==
  /\ type \in {CREATE, UPDATE}
  /\ versioned
  /\ Len(changeSets) >= 3
  /\ changeSets[1].persisted
  /\ changeSets[2].persisted
  /\ ~changeSets[3].persisted
  /\ pc = "findOne"
  /\ idx = 3

\* C18: once an insert or update is answered with a returned row, every
\* property the entity held no value for (undefined or null) when the write
\* was issued, and for which the row holds a value under the property's first
\* field name, has that returned value, whatever the value is, 0 included.
\* (The version property of a versioned type is left out: the version lookup
\* writes it afterwards.)
C18_AsStated ==
  type \in {CREATE, UPDATE} =>
    \A k \in Batch :
      answered(k) =>
        \A p \in PropSet :
          LET returned == res[k].row[meta.properties[p].fieldNames[1]] IN
          (/\ p # meta.versionProperty
           /\ ~isDefined(ResolvedEntity(k, p), TRUE)
           /\ isDefined(returned, TRUE)) =>
            entities[k][p] = returned

Invoked == pc # "start"
Terminated == pc \in {"done", "failed"}
LookupCallsOf(k) == {c \in CallsOf(k) : calls[c].op = "findOne"}
DeleteCalls == {c \in 1..Len(calls) : calls[c].op = "nativeDelete"}
\* no change set gets more than one write call and one version lookup, and a
\* delete batch no more than one delete call
AtMostOneCallEach ==
  /\ \A k \in Batch : Cardinality(WriteCallsOf(k)) <= 1 /\ Cardinality(LookupCallsOf(k)) <= 1
  /\ Cardinality(DeleteCalls) <= 1
  /\ Len(calls) = Cardinality(DeleteCalls)
                     + Cardinality(UNION {WriteCallsOf(k) \cup LookupCallsOf(k) : k \in Batch})
\* an invocation that has ended has either returned, an insert or update batch
\* with every change set persisted, or failed with an error; no call is awaited
Outcome ==
  /\ outstanding = {}
  /\ pc = "done" => /\ error = NoError
                    /\ type \in {CREATE, UPDATE} => \A k \in Batch : changeSets[k].persisted
  /\ pc = "failed" => error # NoError

\* C20: when every driver call is answered in the end, every invocation that
\* was made ends: it returns, with all change sets of an insert or update batch
\* persisted, or it fails; and at no time has a change set had more than one
\* write call or more than one version lookup.
C20_Terminates ==
  /\ Invoked ~> Terminated
  /\ [](Terminated => Outcome)
  /\ []AtMostOneCallEach

C20_Witness ==
  /\ pc = "done"
  /\ type = UPDATE
  /\ versioned
  /\ Len(changeSets) = MaxBatch
  /\ \A k \in Batch : /\ changeSets[k].persisted
                      /\ Cardinality(WriteCallsOf(k)) = 1
                      /\ Cardinality(LookupCallsOf(k)) = 1

\* the objects of the invocation as they were passed in
PreWorld == [changeSets |-> pre.changeSets, entities |-> pre.entities,
             identifierMap |-> pre.identifierMap, setValues |-> <<>>]

\* what executeInserts / executeUpdates, run on its own on the batch as it was
\* passed in, has made of its objects and which driver calls it has issued once
\* it has got the answers the invocation has got, from change set k on
RECURSIVE AloneFrom(_, _)
AloneFrom(s, k) ==
  IF k > idx THEN s
  ELSE
    LET write == IF type = CREATE THEN nativeInsertCall(s.w, k) ELSE updateEntity(s.w, k)
        issued == Append(s.calls, write)
    IN
    IF ~answered(k) THEN [w |-> s.w, calls |-> issued]
    ELSE
      LET w1 == IF type = CREATE THEN afterInsert(s.w, k, res[k])
                ELSE afterUpdate(s.w, k, res[k])
          step == processOptimisticLock(w1.changeSets[k], res[k])
          marked == [w1 EXCEPT !.changeSets = markPersisted(w1.changeSets, k)]
          looked == Append(issued, findOneCall(w1, k))
      IN
      CASE step = "return" -> AloneFrom([w |-> marked, calls |-> issued], k + 1)
        [] step = "throw" -> [w |-> w1, calls |-> issued]
        [] OTHER ->
             IF found[k].found
             THEN AloneFrom([w |-> [marked EXCEPT !.entities[k] = refreshVersion(@, found[k])],
                             calls |-> looked], k + 1)
             ELSE [w |-> w1, calls |-> looked]
Alone ==
  IF pc = "start" THEN [w |-> PreWorld, calls |-> <<>>]
  ELSE AloneFrom([w |-> forEachProcessProperties(PreWorld, 1), calls |-> <<>>], 1)

\* both invocations have ended
BothEnded == Terminated /\ other # NoInvocation /\ other.pc \in {"done", "failed"}

\* C19: with two invocations on batches of different types whose steps
\* interleave at the awaits, each invocation has at every moment, and so when
\* both have ended, the change-set flags and payloads, the entity values, the
\* placeholder values and the driver-call sequence that a run of it alone
\* with the same answers has; of the entity and the placeholder the two
\* batches share, only the populated flag is set, as either run alone sets it.
\* Running alone is the same as running before or after the other.
C19_InterleavingSameAsAlone ==
  /\ World \in {Alone.w, [Alone.w EXCEPT !.entities[0].populated = TRUE]}
  /\ calls = Alone.calls
  /\ identifierMap[0] = pre.identifierMap[0]
  /\ BothEnded => entities[0].populated =
        \/ \E k \in Batch : type = CREATE /\ answered(k)
        \/ \E k \in 1..Len(other.changeSets) : other.type = CREATE /\ other.res[k] # NoResult

C19_Witness ==
  /\ other # NoInvocation
  /\ type # other.type
  /\ pc = "findOne"
  /\ idx = 2
  /\ changeSets[1].persisted
  /\ other.pc = "findOne"
  /\ other.idx = 1
  /\ entities[0].populated
  /\ calls = Alone.calls
  /\ Len(calls) = 4
  /\ Len(other.calls) = 2

====
